---- MODULE Spec2Model ----
(***************************************************************************)
(* State-machine model of the YouTube analysis backend:                    *)
(*   utils.py   clean_transcript, get_openai_client, get_transcript,       *)
(*              get_summary                                                *)
(*   agents.py  process_video                                              *)
(*   main.py    analyze_video                                              *)
(* A Python str is a sequence of one-character strings, so that the        *)
(* regular-expression substitutions, substring tests, slicing and strip()  *)
(* of the source are computed character by character.                      *)
(***************************************************************************)
EXTENDS Integers, Sequences, FiniteSets, TLC

VARIABLES
    c_text, c_out, c_again, c_stage,
    pc, api_key, subtitles, automatic_captions, e_text, temp_dir,
    transcript_text, fetched, exc, cleaned_transcript,
    transcript, submitted, summary, result, response, gt_calls, gs_calls

cleanVars == <<c_text, c_out, c_again, c_stage>>
getTranscriptLocals ==
    <<subtitles, automatic_captions, e_text, temp_dir, transcript_text,
      fetched, cleaned_transcript>>
requestVars ==
    <<pc, api_key, subtitles, automatic_captions, e_text, temp_dir,
      transcript_text, fetched, exc, cleaned_transcript,
      transcript, submitted, summary, result, response, gt_calls, gs_calls>>
vars == <<cleanVars, requestVars>>

\* Python's None
None == "None"

(***************************************************************************)
(* Characters and the str helpers the source uses                          *)
(***************************************************************************)
NL == "\n"
Digits == {"0", "1", "2", "3", "4", "5", "6", "7", "8", "9"}
\* the characters str.strip() removes
Whitespace == {" ", "\n", "\t", "\r"}
\* marks a \d position of a pattern
D == "\\d"

Upper == <<"A","B","C","D","E","F","G","H","I","J","K","L","M",
           "N","O","P","Q","R","S","T","U","V","W","X","Y","Z">>
LowerOf == <<"a","b","c","d","e","f","g","h","i","j","k","l","m",
             "n","o","p","q","r","s","t","u","v","w","x","y","z">>

\* str.lower() on one character
LowerChar(c) ==
    IF \E k \in 1..26 : Upper[k] = c
    THEN LowerOf[CHOOSE k \in 1..26 : Upper[k] = c]
    ELSE c

\* str.lower()
Lower(s) == [k \in 1..Len(s) |-> LowerChar(s[k])]

\* the pattern (literal characters, D for a digit) matches s at position i
MatchAt(s, i, pat) ==
    /\ i + Len(pat) - 1 <= Len(s)
    /\ \A k \in 1..Len(pat) :
          IF pat[k] = D THEN s[i + k - 1] \in Digits ELSE s[i + k - 1] = pat[k]

\* `pat in s` for two strs
Contains(s, pat) == \E i \in 1..(Len(s) + 1) : MatchAt(s, i, pat)

\* least element of a set of integers
Min(S) == CHOOSE x \in S : \A y \in S : x <= y

\* first position >= i of s whose character is not in the class, Len(s)+1 if none
RunEnd(s, i, class) ==
    CHOOSE j \in i..(Len(s) + 1) :
        /\ j = Len(s) + 1 \/ s[j] \notin class
        /\ \A k \in i..(j - 1) : s[k] \in class

\* first position >= i of s holding character c, 0 if none
Find(s, i, c) ==
    IF \E k \in i..Len(s) : s[k] = c
    THEN CHOOSE k \in i..Len(s) : s[k] = c /\ \A j \in i..(k - 1) : s[j] # c
    ELSE 0

\* str.strip()
Strip(s) ==
    IF \A k \in 1..Len(s) : s[k] \in Whitespace THEN <<>>
    ELSE LET first == CHOOSE k \in 1..Len(s) :
                          s[k] \notin Whitespace /\ \A j \in 1..(k - 1) : s[j] \in Whitespace
             last == CHOOSE k \in 1..Len(s) :
                         s[k] \notin Whitespace /\ \A j \in (k + 1)..Len(s) : s[j] \in Whitespace
         IN  SubSeq(s, first, last)

\* re.sub(pattern, repl, s) from position i on, ends[m] being the last position of
\* the match of the pattern that starts at m: the leftmost match is replaced and the
\* scan goes on behind it
RECURSIVE ReSub(_, _, _, _)
ReSub(s, i, ends, repl) ==
    LET starts == {m \in DOMAIN ends : m >= i}
    IN  IF starts = {} THEN SubSeq(s, i, Len(s))
        ELSE LET m == Min(starts)
             IN  SubSeq(s, i, m - 1) \o repl \o ReSub(s, ends[m] + 1, ends, repl)

(***************************************************************************)
(* clean_transcript: the four re.sub calls, then strip()                   *)
(***************************************************************************)
\* matches of \d+\n: a run of digits, taken whole, that a newline ends
SequenceNumberMatches(s) ==
    [m \in {k \in 1..Len(s) :
               /\ s[k] \in Digits
               /\ RunEnd(s, k, Digits) <= Len(s)
               /\ s[RunEnd(s, k, Digits)] = NL} |-> RunEnd(s, m, Digits)]

\* \d{2}:\d{2}:\d{2},\d{3} --> \d{2}:\d{2}:\d{2},\d{3}\n
TimestampPattern ==
    <<D, D, ":", D, D, ":", D, D, ",", D, D, D, " ", "-", "-", ">", " ",
      D, D, ":", D, D, ":", D, D, ",", D, D, D, NL>>

TimestampMatches(s) ==
    [m \in {k \in 1..Len(s) : MatchAt(s, k, TimestampPattern)} |->
        m + Len(TimestampPattern) - 1]

\* matches of \n+: a run of newlines, taken whole
NewlineMatches(s) ==
    [m \in {k \in 1..Len(s) : s[k] = NL} |-> RunEnd(s, m, {NL}) - 1]

\* matches of <[^>]+>: a "<", at least one character, up to the first ">"
TagMatches(s) ==
    [m \in {k \in 1..Len(s) : s[k] = "<" /\ Find(s, k + 1, ">") > k + 1} |->
        Find(s, m + 1, ">")]

\* re.sub(r'\d+\n', '', text)
SubSequenceNumbers(s) == ReSub(s, 1, SequenceNumberMatches(s), <<>>)

\* re.sub(<timestamp line>, '', text)
SubTimestamps(s) == ReSub(s, 1, TimestampMatches(s), <<>>)

\* re.sub(r'\n+', ' ', text)
SubNewlines(s) == ReSub(s, 1, NewlineMatches(s), <<" ">>)

\* re.sub(r'<[^>]+>', '', text)
SubTags(s) == ReSub(s, 1, TagMatches(s), <<>>)

\* the same steps with strip() applied before the tags are removed
clean_transcript_strip_first(text) ==
    SubTags(Strip(SubNewlines(SubTimestamps(SubSequenceNumbers(text)))))

clean_transcript(text) ==
    Strip(SubTags(SubNewlines(SubTimestamps(SubSequenceNumbers(text)))))

(***************************************************************************)
(* Inputs of the clean_transcript specification                            *)
(***************************************************************************)
\* '00:00:01,000 --> 00:00:02,000'
TimestampRange ==
    <<"0","0",":","0","0",":","0","1",",","0","0","0"," ","-","-",">"," ","0","0",":","0","0",
      ":","0","2",",","0","0","0">>

\* the pieces texts are put together from
CleanFragments ==
    {<<"1">>, <<NL>>, <<" ">>, <<"<">>, <<">">>, <<"b">>, <<"<", "b", ">">>, TimestampRange}

\* number of pieces of an input text
MaxTokens == 4

RECURSIVE Pieces(_)
Pieces(n) ==
    IF n = 0 THEN {<<>>}
    ELSE LET P == Pieces(n - 1)
         IN  P \cup {p \o f : p \in P, f \in CleanFragments}

\* '1\n00:00:01,000 --> 00:00:02,000\nHello <b>world</b>\n\n2\n00:00:02,000 --> 00:00:03,000\nfoo\n'
SrtExample ==
    <<"1","\n","0","0",":","0","0",":","0","1",",","0","0","0"," ","-","-",">"," ","0","0",":",
      "0","0",":","0","2",",","0","0","0","\n","H","e","l","l","o"," ","<","b",">","w","o","r",
      "l","d","<","/","b",">","\n","\n","2","\n","0","0",":","0","0",":","0","2",",","0","0",
      "0"," ","-","-",">"," ","0","0",":","0","0",":","0","3",",","0","0","0","\n","f","o","o",
      "\n">>
\* 'Hello world foo'
SrtExampleCaptions ==
    <<"H","e","l","l","o"," ","w","o","r","l","d"," ","f","o","o">>
\* '7\n00:01:10,250 --> 00:01:12,500\n<i>Good</i>\nmorning\n\n'
SrtOneBlock ==
    <<"7","\n","0","0",":","0","1",":","1","0",",","2","5","0"," ","-","-",">"," ","0","0",":",
      "0","1",":","1","2",",","5","0","0","\n","<","i",">","G","o","o","d","<","/","i",">","\n",
      "m","o","r","n","i","n","g","\n","\n">>
\* 'Good morning'
SrtOneBlockCaptions ==
    <<"G","o","o","d"," ","m","o","r","n","i","n","g">>

\* SRT payloads with the caption text each one carries
SrtCases ==
    {[payload |-> SrtExample, captions |-> SrtExampleCaptions],
     [payload |-> SrtOneBlock, captions |-> SrtOneBlockCaptions]}

CleanInputs == Pieces(MaxTokens) \cup {c.payload : c \in SrtCases}

(***************************************************************************)
(* Texts of the source: patterns tested with `in`, messages raised         *)
(***************************************************************************)
\* 'private video'
PatPrivateVideo ==
    <<"p","r","i","v","a","t","e"," ","v","i","d","e","o">>
\* 'video unavailable'
PatVideoUnavailable ==
    <<"v","i","d","e","o"," ","u","n","a","v","a","i","l","a","b","l","e">>
\* 'unavailable'
PatUnavailable ==
    <<"u","n","a","v","a","i","l","a","b","l","e">>
\* 'age-restricted'
PatAgeRestrictedHyphen ==
    <<"a","g","e","-","r","e","s","t","r","i","c","t","e","d">>
\* 'age restricted'
PatAgeRestricted ==
    <<"a","g","e"," ","r","e","s","t","r","i","c","t","e","d">>
\* 'not available'
PatNotAvailable ==
    <<"n","o","t"," ","a","v","a","i","l","a","b","l","e">>
\* 'blocked'
PatBlocked ==
    <<"b","l","o","c","k","e","d">>
\* 'This video is private and cannot be accessed.'
MsgPrivate ==
    <<"T","h","i","s"," ","v","i","d","e","o"," ","i","s"," ","p","r","i","v","a","t","e"," ",
      "a","n","d"," ","c","a","n","n","o","t"," ","b","e"," ","a","c","c","e","s","s","e","d",
      ".">>
\* 'This video is no longer available.'
MsgUnavailable ==
    <<"T","h","i","s"," ","v","i","d","e","o"," ","i","s"," ","n","o"," ","l","o","n","g","e",
      "r"," ","a","v","a","i","l","a","b","l","e",".">>
\* 'This video is age-restricted and cannot be processed.'
MsgAgeRestricted ==
    <<"T","h","i","s"," ","v","i","d","e","o"," ","i","s"," ","a","g","e","-","r","e","s","t",
      "r","i","c","t","e","d"," ","a","n","d"," ","c","a","n","n","o","t"," ","b","e"," ","p",
      "r","o","c","e","s","s","e","d",".">>
\* 'This video is not available in your region or has been removed.'
MsgNotAvailable ==
    <<"T","h","i","s"," ","v","i","d","e","o"," ","i","s"," ","n","o","t"," ","a","v","a","i",
      "l","a","b","l","e"," ","i","n"," ","y","o","u","r"," ","r","e","g","i","o","n"," ","o",
      "r"," ","h","a","s"," ","b","e","e","n"," ","r","e","m","o","v","e","d",".">>
\* 'This video is blocked and cannot be accessed.'
MsgBlocked ==
    <<"T","h","i","s"," ","v","i","d","e","o"," ","i","s"," ","b","l","o","c","k","e","d"," ",
      "a","n","d"," ","c","a","n","n","o","t"," ","b","e"," ","a","c","c","e","s","s","e","d",
      ".">>
\* 'Could not access video: '
MsgCouldNotAccess ==
    <<"C","o","u","l","d"," ","n","o","t"," ","a","c","c","e","s","s"," ","v","i","d","e","o",
      ":"," ">>
\* 'No English captions available. Available languages: '
MsgNoEnglish ==
    <<"N","o"," ","E","n","g","l","i","s","h"," ","c","a","p","t","i","o","n","s"," ","a","v",
      "a","i","l","a","b","l","e","."," ","A","v","a","i","l","a","b","l","e"," ","l","a","n",
      "g","u","a","g","e","s",":"," ">>
\* 'No captions available for this video. The video may not have subtitles.'
MsgNoCaptions ==
    <<"N","o"," ","c","a","p","t","i","o","n","s"," ","a","v","a","i","l","a","b","l","e"," ",
      "f","o","r"," ","t","h","i","s"," ","v","i","d","e","o","."," ","T","h","e"," ","v","i",
      "d","e","o"," ","m","a","y"," ","n","o","t"," ","h","a","v","e"," ","s","u","b","t","i",
      "t","l","e","s",".">>
\* 'Retrieved transcript is empty or too short.'
MsgTooShort ==
    <<"R","e","t","r","i","e","v","e","d"," ","t","r","a","n","s","c","r","i","p","t"," ","i",
      "s"," ","e","m","p","t","y"," ","o","r"," ","t","o","o"," ","s","h","o","r","t",".">>
\* 'Could not process video: '
MsgCouldNotProcess ==
    <<"C","o","u","l","d"," ","n","o","t"," ","p","r","o","c","e","s","s"," ","v","i","d","e",
      "o",":"," ">>
\* 'OpenAI API key not configured. Please set OPENAI_API_KEY environment variable.'
MsgKeyNotConfigured ==
    <<"O","p","e","n","A","I"," ","A","P","I"," ","k","e","y"," ","n","o","t"," ","c","o","n",
      "f","i","g","u","r","e","d","."," ","P","l","e","a","s","e"," ","s","e","t"," ","O","P",
      "E","N","A","I","_","A","P","I","_","K","E","Y"," ","e","n","v","i","r","o","n","m","e",
      "n","t"," ","v","a","r","i","a","b","l","e",".">>
\* 'OpenAI API key not configured'
PatKeyNotConfigured ==
    <<"O","p","e","n","A","I"," ","A","P","I"," ","k","e","y"," ","n","o","t"," ","c","o","n",
      "f","i","g","u","r","e","d">>
\* 'insufficient_quota'
PatInsufficientQuota ==
    <<"i","n","s","u","f","f","i","c","i","e","n","t","_","q","u","o","t","a">>
\* 'quota'
PatQuota ==
    <<"q","u","o","t","a">>
\* 'invalid_api_key'
PatInvalidApiKey ==
    <<"i","n","v","a","l","i","d","_","a","p","i","_","k","e","y">>
\* 'authentication'
PatAuthentication ==
    <<"a","u","t","h","e","n","t","i","c","a","t","i","o","n">>
\* 'OpenAI API quota exceeded. Please try again later.'
MsgQuota ==
    <<"O","p","e","n","A","I"," ","A","P","I"," ","q","u","o","t","a"," ","e","x","c","e","e",
      "d","e","d","."," ","P","l","e","a","s","e"," ","t","r","y"," ","a","g","a","i","n"," ",
      "l","a","t","e","r",".">>
\* 'OpenAI API authentication failed. Please check your API key.'
MsgAuth ==
    <<"O","p","e","n","A","I"," ","A","P","I"," ","a","u","t","h","e","n","t","i","c","a","t",
      "i","o","n"," ","f","a","i","l","e","d","."," ","P","l","e","a","s","e"," ","c","h","e",
      "c","k"," ","y","o","u","r"," ","A","P","I"," ","k","e","y",".">>
\* 'Could not generate summary: '
MsgCouldNotSummarize ==
    <<"C","o","u","l","d"," ","n","o","t"," ","g","e","n","e","r","a","t","e"," ","s","u","m",
      "m","a","r","y",":"," ">>
\* 'An unexpected error occurred while processing the video. Please try again later.'
MsgUnexpected ==
    <<"A","n"," ","u","n","e","x","p","e","c","t","e","d"," ","e","r","r","o","r"," ","o","c",
      "c","u","r","r","e","d"," ","w","h","i","l","e"," ","p","r","o","c","e","s","s","i","n",
      "g"," ","t","h","e"," ","v","i","d","e","o","."," ","P","l","e","a","s","e"," ","t","r",
      "y"," ","a","g","a","i","n"," ","l","a","t","e","r",".">>
\* '... [transcript truncated]'
TruncationMarker ==
    <<".",".","."," ","[","t","r","a","n","s","c","r","i","p","t"," ","t","r","u","n","c","a",
      "t","e","d","]">>

(***************************************************************************)
(* Inputs of the request: what the video platform, the file system and the *)
(* chat-completion service answer                                          *)
(***************************************************************************)
\* 'Private video. '
PhrasePrivate ==
    <<"P","r","i","v","a","t","e"," ","v","i","d","e","o","."," ">>
\* 'Video unavailable. '
PhraseUnavailable ==
    <<"V","i","d","e","o"," ","u","n","a","v","a","i","l","a","b","l","e","."," ">>
\* 'Sign in to confirm: age-restricted. '
PhraseAge ==
    <<"S","i","g","n"," ","i","n"," ","t","o"," ","c","o","n","f","i","r","m",":"," ","a","g",
      "e","-","r","e","s","t","r","i","c","t","e","d","."," ">>
\* 'The uploader has not made this video available in your country. '
PhraseRegion ==
    <<"T","h","e"," ","u","p","l","o","a","d","e","r"," ","h","a","s"," ","n","o","t"," ","m",
      "a","d","e"," ","t","h","i","s"," ","v","i","d","e","o"," ","a","v","a","i","l","a","b",
      "l","e"," ","i","n"," ","y","o","u","r"," ","c","o","u","n","t","r","y","."," ">>
\* 'Blocked on copyright grounds. '
PhraseBlocked ==
    <<"B","l","o","c","k","e","d"," ","o","n"," ","c","o","p","y","r","i","g","h","t"," ","g",
      "r","o","u","n","d","s","."," ">>
\* 'Unable to download webpage. '
PhraseNetwork ==
    <<"U","n","a","b","l","e"," ","t","o"," ","d","o","w","n","l","o","a","d"," ","w","e","b",
      "p","a","g","e","."," ">>

ErrorPhrases ==
    {PhrasePrivate, PhraseUnavailable, PhraseAge, PhraseRegion, PhraseBlocked, PhraseNetwork}

\* number of phrases of an error text of extract_info
MaxPhrases == 2

RECURSIVE PhraseTexts(_)
PhraseTexts(n) ==
    IF n = 0 THEN {<<>>}
    ELSE LET P == PhraseTexts(n - 1)
         IN  P \cup {p \o f : p \in P, f \in ErrorPhrases}

ErrorTexts == PhraseTexts(MaxPhrases)

\* '1\n<b>Too</b>\nshort\n'
FileNine ==
    <<"1","\n","<","b",">","T","o","o","<","/","b",">","\n","s","h","o","r","t","\n">>
\* '2\nTen\nchars!\n'
FileTen ==
    <<"2","\n","T","e","n","\n","c","h","a","r","s","!","\n">>
\* '1\n00:00:01,000 --> 00:00:02,000\n'
CaptionHead ==
    <<"1","\n","0","0",":","0","0",":","0","1",",","0","0","0"," ","-","-",">"," ","0","0",":",
      "0","0",":","0","2",",","0","0","0","\n">>
\* ' captions\n\n'
CaptionTail ==
    <<" ","c","a","p","t","i","o","n","s","\n","\n">>
\* 'The video greets the world.'
SummaryText ==
    <<"T","h","e"," ","v","i","d","e","o"," ","g","r","e","e","t","s"," ","t","h","e"," ","w",
      "o","r","l","d",".">>
\* 'Error code: 429 - insufficient_quota'
ApiQuotaCode ==
    <<"E","r","r","o","r"," ","c","o","d","e",":"," ","4","2","9"," ","-"," ","i","n","s","u",
      "f","f","i","c","i","e","n","t","_","q","u","o","t","a">>
\* 'You exceeded your current Quota.'
ApiQuotaText ==
    <<"Y","o","u"," ","e","x","c","e","e","d","e","d"," ","y","o","u","r"," ","c","u","r","r",
      "e","n","t"," ","Q","u","o","t","a",".">>
\* 'Error code: 401 - invalid_api_key'
ApiKeyCode ==
    <<"E","r","r","o","r"," ","c","o","d","e",":"," ","4","0","1"," ","-"," ","i","n","v","a",
      "l","i","d","_","a","p","i","_","k","e","y">>
\* 'Authentication failed.'
ApiAuthText ==
    <<"A","u","t","h","e","n","t","i","c","a","t","i","o","n"," ","f","a","i","l","e","d",".">>
\* 'Connection error.'
ApiConnection ==
    <<"C","o","n","n","e","c","t","i","o","n"," ","e","r","r","o","r",".">>
\* '[Errno 28] No space left on device'
OsErrorText ==
    <<"[","E","r","r","n","o"," ","2","8","]"," ","N","o"," ","s","p","a","c","e"," ","l","e",
      "f","t"," ","o","n"," ","d","e","v","i","c","e">>

\* a str variable holding None
NoText == <<None>>

\* `not s` for an Optional[str]
Falsy(s) == s = NoText \/ s = <<>>

NoUrl == [src |-> "none", lang |-> "none", res |-> "none"]
NoExc == [type |-> "none", text |-> <<>>]
NoResult == [transcript |-> NoText, summary |-> NoText]
NoResponse == [status |-> 0, detail |-> <<>>, body |-> NoResult]

\* ValueError and the built-in exception classes derived from it
IsValueError(type) == type \in {"ValueError", "UnicodeDecodeError"}

ValueError(message) == [type |-> "ValueError", text |-> message]

\* the exception a statement outside the inner handlers of get_transcript raises:
\* tempfile.TemporaryDirectory(), clean_transcript(transcript_text)
UnexpectedError(at) ==
    IF at = "temp_dir"
    THEN [type |-> "OSError", text |-> OsErrorText]
    ELSE [type |-> "MemoryError", text |-> <<>>]

\* the two caption maps are keyed by language tag
ManualLangOrder == <<"en", "en-US", "en-GB", "en-CA">>
AutoLangOrder == <<"en", "en-US", "en-GB">>
LangListing == <<"en", "en-US", "en-GB", "en-CA", "en-AU">>

LangChars(lang) ==
    CASE lang = "en" -> <<"e", "n">>
      [] lang = "en-US" -> <<"e", "n", "-", "U", "S">>
      [] lang = "en-GB" -> <<"e", "n", "-", "G", "B">>
      [] lang = "en-CA" -> <<"e", "n", "-", "C", "A">>
      [] lang = "en-AU" -> <<"e", "n", "-", "A", "U">>
      [] lang = "manual" -> <<"m", "a", "n", "u", "a", "l">>
      [] lang = "auto" -> <<"a", "u", "t", "o">>

\* languages the enumerated videos carry tracks for
ManualInputLangs == {"en", "en-US", "en-GB"}
AutoInputLangs == {"en", "en-GB"}

\* a caption track of the metadata: wrong format, no locator, a locator whose
\* fetch raises, answers an empty body, answers captions
TrackKinds == {"json3", "nourl", "fail", "empty", "ok"}

Resources ==
    [src : {"manual"}, lang : ManualInputLangs, kind : TrackKinds]
        \cup [src : {"auto"}, lang : AutoInputLangs, kind : TrackKinds]

TrackOf(r) ==
    [ext |-> CASE r.kind = "json3" -> "json3"
               [] r.kind = "fail" -> "vtt"
               [] OTHER -> "srt",
     url |-> IF r.kind = "nourl" THEN NoUrl
             ELSE [src |-> r.src, lang |-> r.lang,
                   res |-> IF r.kind = "json3" THEN "ok" ELSE r.kind]]

\* tracks of one video
MaxTracks == 3

\* position of a resource's (map, language) in the listing of a video
SlotOf(r) ==
    (IF r.src = "manual" THEN 0 ELSE 10)
        + (CHOOSE k \in 1..Len(LangListing) : LangListing[k] = r.lang)

\* track lists of at most n tracks, grouped by map and language
RECURSIVE TrackListings(_)
TrackListings(n) ==
    IF n = 0 THEN {<<>>}
    ELSE LET P == TrackListings(n - 1)
             Q == {q \in P : Len(q) = n - 1}
         IN  P \cup {Append(x[1], x[2]) :
                        x \in {y \in Q \X Resources :
                                  n = 1 \/ SlotOf(y[1][n - 1]) <= SlotOf(y[2])}}

VideoListings == TrackListings(MaxTracks)

\* info.get('subtitles', {}) / info.get('automatic_captions', {}) of a listing
CaptionMap(p, src) ==
    [l \in {p[k].lang : k \in {j \in 1..Len(p) : p[j].src = src}} |->
        LET own(r) == r.src = src /\ r.lang = l
            rs == SelectSeq(p, own)
        IN  [k \in 1..Len(rs) |-> TrackOf(rs[k])]]

\* urllib.request.urlopen(url).read().decode('utf-8')
UrlOpen(url) ==
    [raised |-> url.res = "fail",
     body |-> IF url.res = "empty" THEN <<>>
              ELSE CaptionHead \o LangChars(url.src) \o <<" ">> \o LangChars(url.lang)
                       \o CaptionTail]

\* contents of the .srt file the primary download leaves in the directory
SubtitleFiles == {<<>>, FileNine, FileTen}

ApiKeys == {None, "", "your_openai_api_key_here", "sk-test"}

ApiErrors ==
    {[type |-> "RateLimitError", text |-> ApiQuotaCode],
     [type |-> "RateLimitError", text |-> ApiQuotaText],
     [type |-> "AuthenticationError", text |-> ApiKeyCode],
     [type |-> "AuthenticationError", text |-> ApiAuthText],
     [type |-> "APIConnectionError", text |-> ApiConnection]}

(***************************************************************************)
(* get_transcript                                                          *)
(***************************************************************************)
\* the except clause of the metadata query with "unavailable" tested first
ClassifyAccessErrorUnavailableFirst(e) ==
    LET error_msg == Lower(e)
    IN  IF Contains(error_msg, PatVideoUnavailable) \/ Contains(error_msg, PatUnavailable)
        THEN MsgUnavailable
        ELSE IF Contains(error_msg, PatPrivateVideo) THEN MsgPrivate
        ELSE MsgCouldNotAccess \o e

\* the message of the ValueError raised when extract_info fails with text e
ClassifyAccessError(e) ==
    LET error_msg == Lower(e)
    IN  IF Contains(error_msg, PatPrivateVideo) THEN MsgPrivate
        ELSE IF Contains(error_msg, PatVideoUnavailable) \/ Contains(error_msg, PatUnavailable)
        THEN MsgUnavailable
        ELSE IF Contains(error_msg, PatAgeRestrictedHyphen)
                    \/ Contains(error_msg, PatAgeRestricted)
        THEN MsgAgeRestricted
        ELSE IF Contains(error_msg, PatNotAvailable) THEN MsgNotAvailable
        ELSE IF Contains(error_msg, PatBlocked) THEN MsgBlocked
        ELSE MsgCouldNotAccess \o e

\* sub.get('ext') in ['srt', 'vtt'] and a truthy sub.get('url')
Eligible(sub) == sub.ext \in {"srt", "vtt"} /\ sub.url # NoUrl

\* `for sub in subtitle_info` from track k on: the first eligible track is fetched;
\* the fetch raises out of the loop or assigns the body and breaks
RECURSIVE FetchTrack(_, _)
FetchTrack(subtitle_info, k) ==
    IF k > Len(subtitle_info)
    THEN [raised |-> FALSE, assigned |-> FALSE, text |-> NoText, tried |-> <<>>]
    ELSE IF Eligible(subtitle_info[k])
         THEN LET resp == UrlOpen(subtitle_info[k].url)
              IN  [raised |-> resp.raised,
                   assigned |-> ~resp.raised,
                   text |-> IF resp.raised THEN NoText ELSE resp.body,
                   tried |-> <<[url |-> subtitle_info[k].url, ok |-> ~resp.raised]>>]
         ELSE FetchTrack(subtitle_info, k + 1)

\* the search giving up at the first fetch that raises
RECURSIVE SearchCaptionsStopOnError(_, _, _, _)
SearchCaptionsStopOnError(captions, order, i, acc) ==
    IF i > Len(order) THEN acc
    ELSE IF order[i] \notin DOMAIN captions
         THEN SearchCaptionsStopOnError(captions, order, i + 1, acc)
         ELSE LET r == FetchTrack(captions[order[i]], 1)
                  next == [text |-> IF r.assigned THEN r.text ELSE acc.text,
                           tried |-> acc.tried \o r.tried]
              IN  IF r.raised \/ ~Falsy(next.text)
                  THEN next
                  ELSE SearchCaptionsStopOnError(captions, order, i + 1, next)

\* `for lang in [...]` from language i on, acc the transcript_text and the fetches so far:
\* a language that is no key is skipped, an exception of a language is logged and
\* the loop continues, a truthy transcript_text breaks
RECURSIVE SearchCaptions(_, _, _, _)
SearchCaptions(captions, order, i, acc) ==
    IF i > Len(order) THEN acc
    ELSE IF order[i] \notin DOMAIN captions
         THEN SearchCaptions(captions, order, i + 1, acc)
         ELSE LET r == FetchTrack(captions[order[i]], 1)
                  next == [text |-> IF r.assigned THEN r.text ELSE acc.text,
                           tried |-> acc.tried \o r.tried]
              IN  IF ~r.raised /\ ~Falsy(next.text)
                  THEN next
                  ELSE SearchCaptions(captions, order, i + 1, next)

\* ', '.join(...) of the keys of a caption map, in the order of LangListing
RECURSIVE JoinKeys(_, _)
JoinKeys(captions, k) ==
    IF k > Len(LangListing) THEN <<>>
    ELSE IF LangListing[k] \in DOMAIN captions
         THEN <<LangChars(LangListing[k])>> \o JoinKeys(captions, k + 1)
         ELSE JoinKeys(captions, k + 1)

RECURSIVE Join(_)
Join(parts) ==
    IF parts = <<>> THEN <<>>
    ELSE IF Len(parts) = 1 THEN parts[1]
    ELSE parts[1] \o <<",", " ">> \o Join(Tail(parts))

\* the ValueError raised when no path obtained a payload
NoPayloadError ==
    LET available_langs == JoinKeys(subtitles, 1) \o JoinKeys(automatic_captions, 1)
    IN  IF available_langs # <<>>
        THEN ValueError(MsgNoEnglish \o Join(available_langs))
        ELSE ValueError(MsgNoCaptions)

\* shortest transcript get_transcript returns
MinTranscriptLen == 10

\* the test accepting every transcript that is not empty
TooShortEmptyOnly(cleaned) == cleaned = <<>>

\* not cleaned_transcript or len(cleaned_transcript.strip()) < 10
TooShort(cleaned) == cleaned = <<>> \/ Len(Strip(cleaned)) < MinTranscriptLen

ClearLocals ==
    /\ subtitles' = <<>>
    /\ automatic_captions' = <<>>
    /\ e_text' = NoText
    /\ temp_dir' = FALSE
    /\ transcript_text' = NoText
    /\ fetched' = <<>>
    /\ cleaned_transcript' = NoText

\* analyze_video awaits process_video, which calls get_transcript(url)
CallGetTranscript ==
    /\ pc = "analyze_video"
    /\ pc' = "extract_info"
    /\ gt_calls' = gt_calls + 1
    /\ UNCHANGED <<api_key, getTranscriptLocals, exc, transcript, submitted, summary,
                   result, response, gs_calls, cleanVars>>

\* ydl.extract_info(url, download=False): it raises with some text, which the except
\* clause turns into a ValueError, or it answers the two caption maps
ExtractInfo ==
    /\ pc = "extract_info"
    /\ \/ \E e \in ErrorTexts :
            /\ e_text' = e
            /\ exc' = ValueError(ClassifyAccessError(e))
            /\ pc' = "gt_except"
            /\ UNCHANGED <<subtitles, automatic_captions>>
       \/ \E p \in VideoListings :
            /\ subtitles' = CaptionMap(p, "manual")
            /\ automatic_captions' = CaptionMap(p, "auto")
            /\ pc' = "temp_dir"
            /\ UNCHANGED <<e_text, exc>>
    /\ UNCHANGED <<api_key, temp_dir, transcript_text, fetched, cleaned_transcript,
                   transcript, submitted, summary, result, response, gt_calls, gs_calls,
                   cleanVars>>

\* with tempfile.TemporaryDirectory() as temp_dir: the directory is created
CreateTempDir ==
    /\ pc = "temp_dir"
    /\ temp_dir' = TRUE
    /\ pc' = "download"
    /\ UNCHANGED <<api_key, subtitles, automatic_captions, e_text, transcript_text, fetched, exc, cleaned_transcript, transcript, submitted, summary, result,
                   response, gt_calls, gs_calls, cleanVars>>

\* dl.download([url]) and the scan of the directory, inside try/except Exception:
\* the download or the read raises, no .srt file appears, or the first one is read
Download ==
    /\ pc = "download"
    /\ \/ transcript_text' = NoText
       \/ \E f \in SubtitleFiles : transcript_text' = f
    /\ pc' = "release"
    /\ UNCHANGED <<api_key, subtitles, automatic_captions, e_text, temp_dir, fetched, exc, cleaned_transcript, transcript, submitted, summary, result,
                   response, gt_calls, gs_calls, cleanVars>>

\* leaving the with block only when a payload was read
ReleaseTempDirOnSuccess ==
    /\ pc = "release"
    /\ temp_dir' = IF Falsy(transcript_text) THEN temp_dir ELSE FALSE
    /\ pc' = IF Falsy(transcript_text) THEN "manual" ELSE "validate"
    /\ UNCHANGED <<api_key, subtitles, automatic_captions, e_text, transcript_text, fetched, exc, cleaned_transcript, transcript, submitted, summary, result,
                   response, gt_calls, gs_calls, cleanVars>>

\* the with block is left, which removes the directory; then `if not transcript_text`
ReleaseTempDir ==
    /\ pc = "release"
    /\ temp_dir' = FALSE
    /\ pc' = IF Falsy(transcript_text) THEN "manual" ELSE "validate"
    /\ UNCHANGED <<api_key, subtitles, automatic_captions, e_text, transcript_text, fetched, exc, cleaned_transcript, transcript, submitted, summary, result,
                   response, gt_calls, gs_calls, cleanVars>>

\* the manual loop followed by the automatic loop without `if not transcript_text`
ManualFallbackThenAutomatic ==
    /\ pc = "manual"
    /\ LET r == SearchCaptions(subtitles, ManualLangOrder, 1,
                               [text |-> transcript_text, tried |-> <<>>])
       IN  /\ transcript_text' = r.text
           /\ fetched' = fetched \o r.tried
    /\ pc' = "automatic"
    /\ UNCHANGED <<api_key, subtitles, automatic_captions, e_text, temp_dir, exc, cleaned_transcript, transcript, submitted, summary, result,
                   response, gt_calls, gs_calls, cleanVars>>

\* the loop over the manual subtitles, then `if not transcript_text`
ManualFallback ==
    /\ pc = "manual"
    /\ LET r == SearchCaptions(subtitles, ManualLangOrder, 1,
                               [text |-> transcript_text, tried |-> <<>>])
       IN  /\ transcript_text' = r.text
           /\ fetched' = fetched \o r.tried
           /\ pc' = IF Falsy(r.text) THEN "automatic" ELSE "validate"
    /\ UNCHANGED <<api_key, subtitles, automatic_captions, e_text, temp_dir, exc, cleaned_transcript, transcript, submitted, summary, result,
                   response, gt_calls, gs_calls, cleanVars>>

\* the loop over the automatic captions
AutomaticFallback ==
    /\ pc = "automatic"
    /\ LET r == SearchCaptions(automatic_captions, AutoLangOrder, 1,
                               [text |-> transcript_text, tried |-> <<>>])
       IN  /\ transcript_text' = r.text
           /\ fetched' = fetched \o r.tried
    /\ pc' = "validate"
    /\ UNCHANGED <<api_key, subtitles, automatic_captions, e_text, temp_dir, exc, cleaned_transcript, transcript, submitted, summary, result,
                   response, gt_calls, gs_calls, cleanVars>>

\* no payload raises; else the payload is cleaned and a short result raises
Validate ==
    /\ pc = "validate"
    /\ IF Falsy(transcript_text)
       THEN /\ exc' = NoPayloadError
            /\ pc' = "gt_except"
            /\ UNCHANGED cleaned_transcript
       ELSE /\ cleaned_transcript' = clean_transcript(transcript_text)
            /\ IF TooShort(cleaned_transcript')
               THEN exc' = ValueError(MsgTooShort) /\ pc' = "gt_except"
               ELSE pc' = "gt_return" /\ UNCHANGED exc
    /\ UNCHANGED <<api_key, subtitles, automatic_captions, e_text, temp_dir,
                   transcript_text, fetched, transcript, submitted, summary, result,
                   response, gt_calls, gs_calls, cleanVars>>

\* a statement of the try body outside the inner handlers raises: creating the
\* temporary directory, cleaning the payload
RaiseUnexpected ==
    /\ pc \in {"temp_dir", "validate"}
    /\ exc' = UnexpectedError(pc)
    /\ pc' = "gt_except"
    /\ UNCHANGED <<api_key, getTranscriptLocals, transcript, submitted, summary, result,
                   response, gt_calls, gs_calls, cleanVars>>

\* the outer handlers letting every exception through as it is
GetTranscriptExceptReraise ==
    /\ pc = "gt_except"
    /\ pc' = "pv_except"
    /\ ClearLocals
    /\ UNCHANGED <<api_key, exc, transcript, submitted, summary, result, response,
                   gt_calls, gs_calls, cleanVars>>

\* except ValueError: raise / except Exception: raise ValueError(...)
GetTranscriptExcept ==
    /\ pc = "gt_except"
    /\ exc' = IF IsValueError(exc.type) THEN exc
              ELSE ValueError(MsgCouldNotProcess \o exc.text)
    /\ pc' = "pv_except"
    /\ ClearLocals
    /\ UNCHANGED <<api_key, transcript, submitted, summary, result, response,
                   gt_calls, gs_calls, cleanVars>>

\* return cleaned_transcript; process_video binds it and calls get_summary(transcript)
ReturnTranscript ==
    /\ pc = "gt_return"
    /\ transcript' = cleaned_transcript
    /\ gs_calls' = gs_calls + 1
    /\ pc' = "get_client"
    /\ ClearLocals
    /\ UNCHANGED <<api_key, exc, submitted, summary, result, response, gt_calls,
                   cleanVars>>

(***************************************************************************)
(* get_summary                                                             *)
(***************************************************************************)
\* not api_key or api_key == "your_openai_api_key_here"
KeyMissing(key) == key = None \/ key = "" \/ key = "your_openai_api_key_here"

max_chars == 8000

\* the cut taken from the limit itself on
TruncateFromLimit(text) ==
    IF Len(text) >= max_chars
    THEN SubSeq(text, 1, max_chars) \o TruncationMarker
    ELSE text

\* transcript[:max_chars] + "... [transcript truncated]" when it is longer
Truncate(text) ==
    IF Len(text) > max_chars
    THEN SubSeq(text, 1, max_chars) \o TruncationMarker
    ELSE text

\* the message of the ValueError get_summary raises for an exception of text t
ClassifySummaryError(t) ==
    IF Contains(t, PatKeyNotConfigured) THEN MsgKeyNotConfigured
    ELSE IF Contains(t, PatInsufficientQuota) \/ Contains(Lower(t), PatQuota) THEN MsgQuota
    ELSE IF Contains(t, PatInvalidApiKey) \/ Contains(Lower(t), PatAuthentication)
    THEN MsgAuth
    ELSE MsgCouldNotSummarize \o t

\* client = get_openai_client(): api_key = os.getenv("OPENAI_API_KEY")
GetOpenAIClient ==
    /\ pc = "get_client"
    /\ \E key \in ApiKeys : api_key' = key
    /\ IF KeyMissing(api_key')
       THEN exc' = ValueError(MsgKeyNotConfigured) /\ pc' = "gs_except"
       ELSE pc' = "completion" /\ UNCHANGED exc
    /\ UNCHANGED <<getTranscriptLocals, transcript, submitted, summary, result,
                   response, gt_calls, gs_calls, cleanVars>>

\* the transcript is truncated and submitted; the call answers a text or raises
CreateCompletion ==
    /\ pc = "completion"
    /\ submitted' = Truncate(transcript)
    /\ \/ /\ summary' = SummaryText
          /\ pc' = "gs_return"
          /\ UNCHANGED exc
       \/ /\ \E x \in ApiErrors : exc' = x
          /\ pc' = "gs_except"
          /\ UNCHANGED summary
    /\ UNCHANGED <<api_key, getTranscriptLocals, transcript, result, response, gt_calls,
                   gs_calls, cleanVars>>

\* except Exception as e: every branch raises a ValueError
GetSummaryExcept ==
    /\ pc = "gs_except"
    /\ exc' = ValueError(ClassifySummaryError(exc.text))
    /\ submitted' = NoText
    /\ pc' = "pv_except"
    /\ UNCHANGED <<api_key, getTranscriptLocals, transcript, summary, result, response,
                   gt_calls, gs_calls, cleanVars>>

(***************************************************************************)
(* process_video and analyze_video                                         *)
(***************************************************************************)
\* the handler of process_video answering with what it has
ProcessVideoExceptPartial ==
    /\ pc = "pv_except"
    /\ result' = [transcript |-> transcript, summary |-> summary]
    /\ pc' = "pv_return"
    /\ UNCHANGED <<api_key, getTranscriptLocals, exc, transcript, submitted, summary,
                   response, gt_calls, gs_calls, cleanVars>>

\* get_summary returns; process_video returns {"transcript": ..., "summary": ...}
ReturnSummary ==
    /\ pc = "gs_return"
    /\ result' = [transcript |-> transcript, summary |-> summary]
    /\ submitted' = NoText
    /\ pc' = "pv_return"
    /\ UNCHANGED <<api_key, getTranscriptLocals, exc, transcript, summary, response,
                   gt_calls, gs_calls, cleanVars>>

\* except Exception as e: print(...); raise
ProcessVideoExcept ==
    /\ pc = "pv_except"
    /\ pc' = "av_except"
    /\ UNCHANGED <<api_key, getTranscriptLocals, exc, transcript, submitted, summary,
                   result, response, gt_calls, gs_calls, cleanVars>>

\* return await process_video(payload.url)
AnalyzeVideoReturn ==
    /\ pc = "pv_return"
    /\ response' = [status |-> 200, detail |-> <<>>, body |-> result]
    /\ pc' = "done"
    /\ UNCHANGED <<api_key, getTranscriptLocals, exc, transcript, submitted, summary,
                   result, gt_calls, gs_calls, cleanVars>>

\* except ValueError: HTTPException(400, str(e)) / except Exception: HTTPException(500)
AnalyzeVideoExcept ==
    /\ pc = "av_except"
    /\ response' = IF IsValueError(exc.type)
                   THEN [status |-> 400, detail |-> exc.text, body |-> NoResult]
                   ELSE [status |-> 500, detail |-> MsgUnexpected, body |-> NoResult]
    /\ pc' = "done"
    /\ UNCHANGED <<api_key, getTranscriptLocals, exc, transcript, submitted, summary,
                   result, gt_calls, gs_calls, cleanVars>>

(***************************************************************************)
(* clean_transcript applied to a text, and to its own result               *)
(***************************************************************************)
Clean ==
    /\ c_stage = "input"
    /\ c_out' = clean_transcript(c_text)
    /\ c_stage' = "cleaned"
    /\ UNCHANGED <<c_text, c_again, requestVars>>

CleanAgain ==
    /\ c_stage = "cleaned"
    /\ c_again' = clean_transcript(c_out)
    /\ c_stage' = "recleaned"
    /\ UNCHANGED <<c_text, c_out, requestVars>>

(***************************************************************************)
(* Specifications                                                          *)
(***************************************************************************)
RequestIdle ==
    /\ subtitles = <<>>
    /\ automatic_captions = <<>>
    /\ e_text = NoText
    /\ temp_dir = FALSE
    /\ transcript_text = NoText
    /\ fetched = <<>>
    /\ exc = NoExc
    /\ cleaned_transcript = NoText
    /\ submitted = NoText
    /\ summary = NoText
    /\ result = NoResult
    /\ response = NoResponse

CleanIdle ==
    /\ c_text = <<>>
    /\ c_out = NoText
    /\ c_again = NoText
    /\ c_stage = "off"

\* one request to /analyze
Init ==
    /\ pc = "analyze_video"
    /\ api_key = None
    /\ transcript = NoText
    /\ gt_calls = 0
    /\ gs_calls = 0
    /\ RequestIdle
    /\ CleanIdle

Next ==
    \/ CallGetTranscript
    \/ ExtractInfo
    \/ CreateTempDir
    \/ Download
    \/ ReleaseTempDir
    \/ ManualFallback
    \/ AutomaticFallback
    \/ Validate
    \/ RaiseUnexpected
    \/ GetTranscriptExcept
    \/ ReturnTranscript
    \/ GetOpenAIClient
    \/ CreateCompletion
    \/ GetSummaryExcept
    \/ ReturnSummary
    \/ ProcessVideoExcept
    \/ AnalyzeVideoReturn
    \/ AnalyzeVideoExcept

Spec == Init /\ [][Next]_vars

\* clean_transcript on every text of CleanInputs
InitClean ==
    /\ c_text \in CleanInputs
    /\ c_out = NoText
    /\ c_again = NoText
    /\ c_stage = "input"
    /\ pc = "off"
    /\ api_key = None
    /\ transcript = NoText
    /\ gt_calls = 0
    /\ gs_calls = 0
    /\ RequestIdle

NextClean == Clean \/ CleanAgain

SpecClean == InitClean /\ [][NextClean]_vars

\* lengths around max_chars of the transcripts handed to get_summary
MaxDelta == 2

SummaryLengths ==
    {MinTranscriptLen, 9000} \cup ((max_chars - MaxDelta)..(max_chars + MaxDelta))

Letters == <<"a", "b", "c", "d", "e", "f", "g">>

\* a transcript of n characters
TextOfLength(n, shift) == [k \in 1..n |-> Letters[((k + shift) % 7) + 1]]

SummaryInputs == {TextOfLength(n, s) : n \in SummaryLengths, s \in {0, 3}}

\* get_summary(transcript) on a transcript get_transcript returned
InitSummary ==
    /\ pc = "get_client"
    /\ api_key = None
    /\ transcript \in SummaryInputs
    /\ gt_calls = 1
    /\ gs_calls = 1
    /\ RequestIdle
    /\ CleanIdle

NextSummary == GetOpenAIClient \/ CreateCompletion \/ GetSummaryExcept

SpecSummary == InitSummary /\ [][NextSummary]_vars

(***************************************************************************)
(* Properties of clean_transcript (SpecClean)                              *)
(***************************************************************************)
\* C1: clean_transcript of an SRT payload is its caption text joined by single
\* spaces, tags removed, no sequence number and no timestamp left; the payload
\* SrtExample yields "Hello world foo".
C1_SrtYieldsCaptionText ==
    c_stage \in {"cleaned", "recleaned"} =>
        \A c \in SrtCases : c_text = c.payload => c_out = c.captions

\* C7: clean_transcript is idempotent: cleaning a cleaned text returns it unchanged.
C7_CleanIdempotent == c_stage = "recleaned" => c_again = c_out

\* a text that cleaning changed, cleaned a second time
C7_Witness ==
    /\ c_stage = "recleaned"
    /\ c_out # <<>>
    /\ c_out # c_text
    /\ Contains(c_text, <<"<", "b", ">">>)
    /\ c_again = c_out

(***************************************************************************)
(* Properties of one request (Spec)                                        *)
(***************************************************************************)
\* the direct-fetch fallback ran before the payload check of get_transcript
FallbackRan ==
    \/ pc = "automatic"
    \/ pc = "validate" /\ (Falsy(transcript_text) \/ fetched # <<>>)

\* fetching the locator answers a payload: it does not raise and the body is not empty
GivesPayload(url) == ~UrlOpen(url).raised /\ UrlOpen(url).body # <<>>

\* an srt/vtt track of a caption map entry that has a locator answering a payload
Fetchable(sub) == Eligible(sub) /\ GivesPayload(sub.url)

\* the one track of an entry a search fetches: the first srt/vtt track with a locator
HasCandidate(subs) == \E k \in 1..Len(subs) : Eligible(subs[k])
Candidate(subs) ==
    subs[CHOOSE k \in 1..Len(subs) :
            Eligible(subs[k]) /\ \A j \in 1..(k - 1) : ~Eligible(subs[j])]

\* the locators a search over the languages of order may fetch, in its order
CandidateUrls(captions, order) ==
    LET has(lang) == lang \in DOMAIN captions /\ HasCandidate(captions[lang])
        langs == SelectSeq(order, has)
    IN  [k \in 1..Len(langs) |-> Candidate(captions[langs[k]]).url]

\* the candidates up to the first one answering a payload, all of them if none does
UpToFirstPayload(urls) ==
    IF \E k \in 1..Len(urls) : GivesPayload(urls[k])
    THEN SubSeq(urls, 1, Min({k \in 1..Len(urls) : GivesPayload(urls[k])}))
    ELSE urls

SomePayload(urls) == \E k \in 1..Len(urls) : GivesPayload(urls[k])

FetchedUrls == [k \in 1..Len(fetched) |-> fetched[k].url]

ManualEnGbPayload == UrlOpen([src |-> "manual", lang |-> "en-GB", res |-> "ok"]).body

\* C2 as stated: with a manual en-GB entry that has a fetchable srt/vtt track, no
\* manual en entry and an automatic en entry, the fallback uses the en-GB manual
\* payload and fetches no automatic-caption locator.
C2_ManualOutranksAutomatic ==
    ( /\ pc = "validate" /\ FallbackRan
      /\ "en" \notin DOMAIN subtitles
      /\ "en-GB" \in DOMAIN subtitles
      /\ \E k \in 1..Len(subtitles["en-GB"]) : Fetchable(subtitles["en-GB"][k])
      /\ "en" \in DOMAIN automatic_captions )
    => /\ transcript_text = ManualEnGbPayload
       /\ \A k \in 1..Len(fetched) : fetched[k].url.src # "auto"

\* C2 amended: when the FIRST srt/vtt track with a locator of the manual en-GB entry
\* answers a payload (and there is no manual en or en-US entry), the payload used is
\* the en-GB manual one and no automatic-caption locator is fetched; and an automatic
\* locator is fetched only after a manual search in which no fetch answered a payload.
C2_FirstManualTrackOutranksAutomatic ==
    /\ ( /\ pc = "validate" /\ FallbackRan
         /\ "en" \notin DOMAIN subtitles
         /\ "en-US" \notin DOMAIN subtitles
         /\ "en-GB" \in DOMAIN subtitles
         /\ HasCandidate(subtitles["en-GB"])
         /\ GivesPayload(Candidate(subtitles["en-GB"]).url)
         /\ "en" \in DOMAIN automatic_captions )
       => /\ transcript_text = ManualEnGbPayload
          /\ \A k \in 1..Len(fetched) : fetched[k].url.src # "auto"
    /\ pc = "automatic" => Falsy(transcript_text)
    /\ \A a \in 1..Len(fetched) :
          fetched[a].url.src = "auto" =>
              \A m \in 1..Len(fetched) :
                  fetched[m].url.src = "manual" => m < a /\ ~GivesPayload(fetched[m].url)

\* the en-GB manual payload was used although an automatic en track was fetchable
C2_Witness ==
    /\ pc = "validate" /\ FallbackRan
    /\ "en" \notin DOMAIN subtitles
    /\ "en-GB" \in DOMAIN subtitles
    /\ Len(subtitles["en-GB"]) = 2
    /\ ~Eligible(subtitles["en-GB"][1])
    /\ Fetchable(subtitles["en-GB"][2])
    /\ "en" \in DOMAIN automatic_captions
    /\ Fetchable(automatic_captions["en"][1])
    /\ transcript_text = ManualEnGbPayload
    /\ Len(fetched) = 1

\* C3: get_transcript returns no transcript shorter than 10 characters: a payload
\* whose cleaned text is shorter makes it raise a ValueError, and every transcript
\* it returns has at least 10 characters.
C3_ShortTranscriptRaises ==
    /\ [](pc = "gt_return" =>
            /\ cleaned_transcript = clean_transcript(transcript_text)
            /\ Len(cleaned_transcript) >= MinTranscriptLen)
    /\ [](transcript # NoText => Len(transcript) >= MinTranscriptLen)
    /\ []((/\ pc \in {"gt_return", "gt_except"}
           /\ ~Falsy(transcript_text)
           /\ Len(clean_transcript(transcript_text)) < MinTranscriptLen)
          => pc = "gt_except")
    /\ [][pc = "gt_except" => pc' = "pv_except" /\ IsValueError(exc'.type)]_vars

\* a payload of nine cleaned characters was refused
C3_Witness ==
    /\ pc = "gt_except"
    /\ exc = ValueError(MsgTooShort)
    /\ ~Falsy(transcript_text)
    /\ Len(clean_transcript(transcript_text)) = MinTranscriptLen - 1

\* C4: whatever is raised inside get_transcript or get_summary leaves the function
\* as a ValueError, and analyze_video answers it with status 400 and the message of
\* the error as detail, never with status 500.
C4_FailuresAreClientErrors ==
    /\ pc \in {"pv_except", "av_except"} => IsValueError(exc.type) /\ exc # NoExc
    /\ pc = "done" => response.status \in {200, 400}
    /\ (pc = "done" /\ exc # NoExc) =>
          response = [status |-> 400, detail |-> exc.text, body |-> NoResult]

\* an OSError of the temporary directory was answered with status 400
C4_Witness ==
    /\ pc = "done"
    /\ response.status = 400
    /\ response.detail = MsgCouldNotProcess \o OsErrorText

\* C6: when the error text of the metadata query contains "private video" (in any
\* case), get_transcript raises the ValueError "This video is private and cannot be
\* accessed.", whatever other known substring the text contains.
C6_PrivateVideoFirst ==
    /\ []((pc = "gt_except" /\ e_text # NoText /\ Contains(Lower(e_text), PatPrivateVideo))
          => exc = ValueError(MsgPrivate))
    /\ [][(pc = "gt_except" /\ e_text # NoText /\ Contains(Lower(e_text), PatPrivateVideo))
          => (pc' = "pv_except" /\ exc' = ValueError(MsgPrivate))]_vars

\* an error text naming an unavailable video and, in capitals, a private one
C6_Witness ==
    /\ pc = "gt_except"
    /\ e_text = PhraseUnavailable \o PhrasePrivate
    /\ ~Contains(e_text, PatPrivateVideo)
    /\ Contains(Lower(e_text), PatUnavailable)
    /\ exc = ValueError(MsgPrivate)

\* C8 as stated: a search ends without a payload only when no srt/vtt track of the
\* searched languages is fetchable.
C8_AnyFetchableTrackIsFound ==
    /\ pc = "automatic" =>
          \A k \in 1..Len(ManualLangOrder) :
              ManualLangOrder[k] \in DOMAIN subtitles =>
                  \A t \in 1..Len(subtitles[ManualLangOrder[k]]) :
                      ~Fetchable(subtitles[ManualLangOrder[k]][t])
    /\ (pc = "validate" /\ FallbackRan /\ Falsy(transcript_text)) =>
          \A k \in 1..Len(AutoLangOrder) :
              AutoLangOrder[k] \in DOMAIN automatic_captions =>
                  \A t \in 1..Len(automatic_captions[AutoLangOrder[k]]) :
                      ~Fetchable(automatic_captions[AutoLangOrder[k]][t])

\* C8 amended: each search fetches, language after language in preference order, the
\* first srt/vtt track with a locator of the language (its other tracks are never
\* fetched); a fetch that raises or answers an empty body does not end the search,
\* the search stops at the first fetch answering a payload, and a payload is
\* obtained exactly when one of these first tracks answers one.
C8_SearchContinuesToNextLanguage ==
    LET manual == CandidateUrls(subtitles, ManualLangOrder)
        auto == CandidateUrls(automatic_captions, AutoLangOrder)
    IN  /\ pc = "automatic" =>
              /\ FetchedUrls = manual
              /\ ~SomePayload(manual)
        /\ (pc = "validate" /\ FallbackRan) =>
              /\ FetchedUrls = UpToFirstPayload(manual)
                     \o (IF SomePayload(manual) THEN <<>> ELSE UpToFirstPayload(auto))
              /\ ~Falsy(transcript_text) <=> (SomePayload(manual) \/ SomePayload(auto))
              /\ ~Falsy(transcript_text) => transcript_text = UrlOpen(fetched[Len(fetched)].url).body
              /\ \A k \in 1..Len(fetched) : fetched[k].ok = ~UrlOpen(fetched[k].url).raised

\* a fetch raised, and the search went on to a language whose fetch gave the payload
C8_Witness ==
    /\ pc = "validate"
    /\ Len(fetched) = 2
    /\ ~fetched[1].ok
    /\ fetched[2].ok
    /\ fetched[1].url.src = fetched[2].url.src
    /\ fetched[1].url.lang # fetched[2].url.lang
    /\ transcript_text = UrlOpen(fetched[2].url).body
    /\ transcript_text # <<>>

\* C9: process_video calls get_transcript exactly once, and get_summary at most once
\* and only with the transcript get_transcript returned; the result is built only
\* from both return values; after a failure no stage is called and no result exists.
C9_StagesInSequence ==
    /\ [](/\ gt_calls = (IF pc = "analyze_video" THEN 0 ELSE 1)
          /\ gs_calls <= 1
          /\ gs_calls = 1 <=> transcript # NoText
          /\ summary # NoText => gs_calls = 1
          /\ result # NoResult =>
                /\ transcript # NoText /\ summary # NoText
                /\ result = [transcript |-> transcript, summary |-> summary]
          /\ pc \in {"pv_except", "av_except"} => exc # NoExc /\ result = NoResult
          /\ pc = "done" =>
                /\ response.body = result
                /\ response.status = 200 <=> result # NoResult)
    /\ [][(pc \in {"gs_except", "pv_except", "av_except", "gt_except"}) =>
            (gt_calls' = gt_calls /\ gs_calls' = gs_calls
             /\ pc' \in {"pv_except", "av_except", "done"} /\ result' = NoResult)]_vars

\* the summary stage failed after a transcript was returned: no result, no second call
C9_Witness ==
    /\ pc = "done"
    /\ transcript # NoText
    /\ gt_calls = 1
    /\ gs_calls = 1
    /\ result = NoResult
    /\ response.status = 400

\* C10: the temporary directory of the primary download is held only during that
\* attempt: it is released when a fallback fetch starts and when get_transcript
\* returns or raises, and the payload read from it is still there after the release.
C10_TempDirReleased ==
    /\ [](temp_dir => pc \in {"download", "release"})
    /\ [](pc \in {"manual", "automatic", "validate", "gt_return", "gt_except"} => ~temp_dir)
    /\ [][pc = "release" => (~temp_dir' /\ transcript_text' = transcript_text)]_vars

\* the download left no payload, the directory is gone and the fallback starts
C10_Witness ==
    /\ pc = "manual"
    /\ ~temp_dir
    /\ Falsy(transcript_text)
    /\ DOMAIN subtitles # {}

(***************************************************************************)
(* Properties of get_summary (SpecSummary)                                 *)
(***************************************************************************)
\* C5: get_summary submits a transcript of at most 8000 characters unchanged and a
\* longer one cut to its first 8000 characters followed by the truncation marker;
\* what is submitted is never longer than 8000 plus the length of the marker.
C5_SubmittedIsBounded ==
    submitted # NoText =>
        /\ Len(submitted) <= max_chars + Len(TruncationMarker)
        /\ Len(transcript) <= max_chars => submitted = transcript
        /\ Len(transcript) > max_chars =>
              /\ Len(submitted) = max_chars + Len(TruncationMarker)
              /\ \A k \in 1..max_chars : submitted[k] = transcript[k]
              /\ \A k \in 1..Len(TruncationMarker) :
                    submitted[max_chars + k] = TruncationMarker[k]

\* a transcript of 9000 characters was submitted as 8000 characters and the marker
C5_Witness ==
    /\ pc = "gs_return"
    /\ Len(transcript) = 9000
    /\ Len(submitted) = max_chars + Len(TruncationMarker)
    /\ summary = SummaryText
====
